---- MODULE Spec2Model ----
(***************************************************************************)
(* Shipment service: the Express pipeline of server.js (request log,       *)
(* bearer-token middleware, shipment controller, shipment repository) over *)
(* the "shipments" table, together with the GraphQL resolvers that         *)
(* server.js mounts beside the REST routes.                                *)
(*                                                                         *)
(* A request is handled in steps, one for each turn between its awaits: it *)
(* arrives and logRequest awaits its insert into command_log; the token    *)
(* middleware and the handler run up to a response without a statement or  *)
(* to the awaited statement; the statement is executed on the table as it  *)
(* is then and the handler runs on to a response or to the awaited         *)
(* statistics ping; the ping settles and the response is written.          *)
(* Requests in `inflight` wait between their steps while others are        *)
(* served.  `last` records the request whose response was decided in the   *)
(* latest step and that response, `before` the table as it was before that *)
(* step.                                                                   *)
(***************************************************************************)
EXTENDS Integers, FiniteSets, Sequences, Bags, TLC

VARIABLES shipments, nextId, clock, last, before, inflight

vars == <<shipments, nextId, clock, last, before, inflight>>

(***************************************************************************)
(* Bounds of the model.                                                    *)
(***************************************************************************)
\* AUTO_INCREMENT values handed out by the table: at most MaxId inserts.
MaxId == 2
\* The wall clock (new Date()) takes the values 1..MaxClock.
MaxClock == 2
\* Requests the server has accepted and not yet answered, where requests
\* overlap.
MaxInFlight == 2

(***************************************************************************)
(* Values.                                                                 *)
(***************************************************************************)
\* SQL NULL / JS null for the optional tracking_number.
null == "NULL"
\* JS undefined, where a string is expected (a claim missing from a token).
undefined == "UNDEFINED"

\* The enumeration documented for delivery_status.
DeliveryStatuses ==
    {"delivered", "in transit", "ready for pick up", "shipment handed over"}

\* The identities that appear in tokens and in recipient_email.
Idents == {"a@x.com", "b@x.com"}
OrderIds == {"ORD1", "ORD2"}
\* delivery_status values that requests carry: two of the enumeration, one not.
StatusInputs == {"delivered", "in transit", "lost"}

\* The eleven fields createShipment requires, and the ones holding numbers.
RequiredFields ==
    {"order_id", "recipient_name", "recipient_email", "recipient_phone",
     "delivery_address", "postal_number", "city", "country",
     "delivery_status", "weight", "estimated_cost"}
NumberFields == {"postal_number", "weight", "estimated_cost"}

(***************************************************************************)
(* JavaScript helpers.                                                     *)
(***************************************************************************)
\* A request body is a function from the field names it carries to values;
\* a field outside its DOMAIN reads as undefined.
Has(body, f) == f \in DOMAIN body

\* !body[f] : undefined, the empty string and the number 0 are falsy.
Falsy(body, f) ==
    \/ ~Has(body, f)
    \/ /\ f \in NumberFields
       /\ body[f] = 0
    \/ /\ f \notin NumberFields
       /\ body[f] = ""

\* const { f = d } = req.body
OrDefault(body, f, d) == IF Has(body, f) THEN body[f] ELSE d

(***************************************************************************)
(* Credentials.                                                            *)
(*                                                                         *)
(* A token is what jwt.verify looks at: whether it parses, whether its     *)
(* signature matches JWT_SECRET, whether its validity window has elapsed,  *)
(* and the claims of its payload.  An Authorization header is the sequence *)
(* of its space-separated words; <<>> is a header that is absent or empty. *)
(***************************************************************************)
Token(form, sig, expired, name, email) ==
    [form |-> form, sig |-> sig, expired |-> expired, name |-> name, email |-> email]

\* Verified tokens: every combination of a name claim and an email claim.
GoodTokens == {Token("jwt", "good", FALSE, n, e) : n \in Idents, e \in Idents}
ExpiredToken == Token("jwt", "good", TRUE, "a@x.com", "a@x.com")
ForgedToken == Token("jwt", "bad", FALSE, "a@x.com", "a@x.com")
GarbageToken == Token("garbage", "bad", FALSE, undefined, undefined)
NoToken == Token("none", "bad", FALSE, undefined, undefined)

NoHeader == <<>>
Bearer(t) == <<"Bearer", t>>
\* 'Basic <token>': a verified token after another scheme word.
BasicHeader == <<"Basic", Token("jwt", "good", FALSE, "a@x.com", "a@x.com")>>

\* Mutant of jwtVerify: verification that ignores the expiry of the token.
jwtVerify_IgnoringExpiry(token) ==
    IF token.form # "jwt" THEN "JsonWebTokenError"
    ELSE IF token.sig # "good" THEN "JsonWebTokenError"
    ELSE "ok"

\* jwt.verify(token, process.env.JWT_SECRET): the error it raises, or "ok".
\* A token that does not parse or whose signature is wrong is a
\* JsonWebTokenError whatever its expiry says.
jwtVerify(token) ==
    IF token.form # "jwt" THEN "JsonWebTokenError"
    ELSE IF token.sig # "good" THEN "JsonWebTokenError"
    ELSE IF token.expired THEN "TokenExpiredError"
    ELSE "ok"

\* authHeader.split(' ')[1]
SecondWord(header) == IF Len(header) >= 2 THEN header[2] ELSE NoToken

Refusal(status, message) == [status |-> status, message |-> message]
\* The middleware called next(): no response was sent by it.
Pass == Refusal(0, "")

\* verifyToken.js authenticateToken: the response it sends, or Pass.
authenticateToken(header) ==
    IF header = NoHeader THEN Refusal(401, "Authorization header missing")
    ELSE IF SecondWord(header) = NoToken THEN Refusal(401, "Access token required")
    ELSE IF jwtVerify(SecondWord(header)) = "TokenExpiredError"
         THEN Refusal(403, "Access token expired")
    ELSE IF jwtVerify(SecondWord(header)) # "ok"
         THEN Refusal(403, "Invalid access token")
    ELSE Pass

\* What getEmailFromToken leaves in the handler when it throws.
Thrown == "THROWN"

\* shipmentController.js getEmailFromToken: the token is taken from the
\* header and verified once more, at the time the handler runs; the name
\* claim of the decoded token is returned, or an error is thrown.
getEmailFromToken(header) ==
    IF SecondWord(header) = NoToken THEN Thrown
    ELSE IF jwtVerify(SecondWord(header)) # "ok" THEN Thrown
    ELSE SecondWord(header).name

(***************************************************************************)
(* The shipments table and the repository (shipmentModel.js).              *)
(*                                                                         *)
(* The table is the set of its rows; ids are unique because they come from *)
(* the AUTO_INCREMENT counter nextId.  A comparison with NULL matches no   *)
(* row, so an undefined owner key selects nothing.                         *)
(***************************************************************************)
\* Mutant of WhereOwner: the owner filter matches every row.
WhereOwner_AnyOwner(table, email) == table

\* WHERE recipient_email = ?
WhereOwner(table, email) ==
    {r \in table : email # undefined /\ r.recipient_email = email}
\* WHERE order_id = ? AND recipient_email = ?
WhereOrderOwner(table, order_id, email) ==
    {r \in WhereOwner(table, email) : r.order_id = order_id}
\* Mutant of WhereIdOwner: WHERE id = ?, the owner left out of the filter.
WhereIdOnly(table, id, email) == {r \in table : r.id = id}

\* WHERE id = ? AND recipient_email = ?
WhereIdOwner(table, id, email) ==
    {r \in WhereOwner(table, email) : r.id = id}

\* rows[0] of a result set, read in primary-key order: {} for undefined.
FirstRow(rows) ==
    IF rows = {} THEN {}
    ELSE {CHOOSE r \in rows : \A q \in rows : r.id <= q.id}

Shipment_getAll(table, email) == WhereOwner(table, email)
\* Mutant of Shipment_getByOrderId: WHERE order_id = ?, whoever the owner.
Shipment_getByOrderId_AnyOwner(table, order_id, email) ==
    FirstRow({r \in table : r.order_id = order_id})

\* SELECT * FROM shipments WHERE order_id = ? AND recipient_email = ?; rows[0]
Shipment_getByOrderId(table, order_id, email) ==
    FirstRow(WhereOrderOwner(table, order_id, email))
\* Mutant of Shipment_exists: COUNT(*) WHERE order_id = ?, whoever the owner.
Shipment_exists_AnyOwner(table, order_id, email) ==
    Cardinality({r \in table : r.order_id = order_id}) > 0

\* SELECT COUNT(*) as count FROM shipments WHERE order_id = ? AND
\* recipient_email = ?; rows[0].count > 0
Shipment_exists(table, order_id, email) ==
    Cardinality(WhereOrderOwner(table, order_id, email)) > 0

\* INSERT INTO shipments SET ? : the row stored for shipmentData under id.
InsertedRow(data, id) ==
    [id |-> id,
     order_id |-> data.order_id,
     recipient_name |-> data.recipient_name,
     recipient_email |-> data.recipient_email,
     recipient_phone |-> data.recipient_phone,
     delivery_address |-> data.delivery_address,
     postal_number |-> data.postal_number,
     city |-> data.city,
     country |-> data.country,
     delivery_status |-> data.delivery_status,
     tracking_number |-> data.tracking_number,
     weight |-> data.weight,
     estimated_cost |-> data.estimated_cost,
     created_at |-> data.created_at,
     updated_at |-> data.updated_at]
\* Mutant of Shipment_create: the key is the number of rows plus one instead
\* of the table's AUTO_INCREMENT counter.
Shipment_create_CountingRows(table, data, id) ==
    table \cup {InsertedRow(data, Cardinality(table) + 1)}

Shipment_create(table, data, id) == table \cup {InsertedRow(data, id)}

\* Mutant of Shipment_updateDeliveryStatus: a general field patch, as in the
\* unmounted PUT /:id of routes/shipmentsRoutes.js; the columns the body
\* does not carry are set to NULL.
Shipment_updateDeliveryStatus_FieldPatch(table, id, email, delivery_status) ==
    {IF r \in WhereIdOwner(table, id, email)
       THEN [r EXCEPT !.delivery_status = delivery_status,
                      !.recipient_name = null,
                      !.recipient_phone = null]
       ELSE r : r \in table}

\* UPDATE shipments SET delivery_status = ? WHERE id = ? AND recipient_email = ?
Shipment_updateDeliveryStatus(table, id, email, delivery_status) ==
    {IF r \in WhereIdOwner(table, id, email)
       THEN [r EXCEPT !.delivery_status = delivery_status]
       ELSE r : r \in table}
\* Mutant of Shipment_updateTimestamp: the WHERE clause names the owner
\* alone, so every row of the owner is touched.
Shipment_updateTimestamp_AllOwned(table, id, email, now) ==
    IF WhereIdOwner(table, id, email) = {} THEN table
    ELSE {IF r \in WhereOwner(table, email)
            THEN [r EXCEPT !.updated_at = now]
            ELSE r : r \in table}
\* UPDATE shipments SET updated_at = ? WHERE id = ? AND recipient_email = ?
Shipment_updateTimestamp(table, id, email, now) ==
    {IF r \in WhereIdOwner(table, id, email)
       THEN [r EXCEPT !.updated_at = now]
       ELSE r : r \in table}
\* DELETE FROM shipments WHERE id = ? AND recipient_email = ?
Shipment_delete(table, id, email) == table \ WhereIdOwner(table, id, email)
\* Mutant of Shipment_deleteAll: DELETE FROM shipments, with no WHERE clause.
Shipment_deleteAll_Unscoped(table, email) == {}

\* DELETE FROM shipments WHERE recipient_email = ?
Shipment_deleteAll(table, email) == table \ WhereOwner(table, email)

\* result.affectedRows of the three statements keyed by (id, owner); the
\* driver reports the rows the WHERE clause matched.
AffectedById(table, id, email) == Cardinality(WhereIdOwner(table, id, email))
AffectedByOwner(table, email) == Cardinality(WhereOwner(table, email))

(***************************************************************************)
(* The controller (shipmentController.js).                                 *)
(*                                                                         *)
(* Each handler is an operator from the table, the request and the         *)
(* environment of the request to its outcome: the response and the table   *)
(* it leaves.  env.dbOk tells whether the statement the handler issues     *)
(* succeeds, env.statOk whether the statistics service accepts the ping,   *)
(* env.statHangs whether it leaves the ping unanswered.                    *)
(***************************************************************************)
NoRows == {}

\* Mutant of axiosPost: the catch block of logStat posts the ping once more
\* when the first post has failed.
axiosPost_RetryingOnFailure(stat) ==
    IF stat = "none" THEN 0 ELSE IF stat = "failed" THEN 2 ELSE 1

\* The axios.post calls made for a request: none when its handler does not
\* come to logStat, otherwise the one of logStat's try block, whether it is
\* accepted, fails or is never answered; the catch block only writes to the
\* console.
axiosPost(stat) ==
    IF stat = "none" THEN 0 ELSE 1

Outcome(status, message, rows, shipmentId, exists, table, queried, dbError, stat) ==
    [status |-> status, message |-> message, rows |-> rows,
     shipmentId |-> shipmentId, exists |-> exists, table |-> table,
     queried |-> queried, dbError |-> dbError, stat |-> stat,
     pings |-> axiosPost(stat)]

\* res.status(400) before any repository call.
Invalid(table, message) ==
    Outcome(400, message, NoRows, 0, FALSE, table, FALSE, FALSE, "none")
\* The repository threw 'Database error'; the catch block answers 500.
Failed(table, message) ==
    Outcome(500, message, NoRows, 0, FALSE, table, TRUE, TRUE, "none")
\* getEmailFromToken threw inside the try block: the catch block answers 500
\* and no statement has been issued.
Threw(table, message) ==
    Outcome(500, message, NoRows, 0, FALSE, table, FALSE, FALSE, "none")
\* rowsAffected === 0, or no row found.
NotFound(table, message) ==
    Outcome(404, message, NoRows, 0, FALSE, table, TRUE, FALSE, "none")

\* catch (error) in a method of Shipment: the driver's error is written to
\* the console and a new Error('Database error') is thrown in its place.
Shipment_throw(error) == "Database error"

\* Mutant of Caught: the text of the failure is sent to the caller.
Caught_SendingErrorText(env, message) == env.error

\* catch (error) in a handler: the message of Shipment_throw(env.error) is
\* written to the console, and the handler's own literal is sent.
Caught(env, message) == message

\* logStat(endpoint): one axios.post, with no timeout set; its failure is
\* caught.  "hung" when the statistics service never answers: the promise
\* logStat returns never settles.
logStat(env) ==
    IF env.statHangs THEN "hung"
    ELSE IF env.statOk THEN "sent"
    ELSE "failed"

\* Mutant of AfterStat: a failed ping is not caught and the handler's catch
\* block answers 500.
AfterStat_PingFailureFatal(out) ==
    IF out.stat = "hung"
      THEN [out EXCEPT !.status = 0, !.message = "", !.rows = NoRows,
                       !.shipmentId = 0, !.exists = FALSE]
    ELSE IF out.stat = "failed"
      THEN [out EXCEPT !.status = 500, !.message = "Failed", !.rows = NoRows,
                       !.shipmentId = 0, !.exists = FALSE]
    ELSE out

\* await logStat(...) stands before res.status(...).json(...): while the
\* ping is pending the statement has run and no response has been sent
\* (status 0).
AfterStat(out) ==
    IF out.stat = "hung"
      THEN [out EXCEPT !.status = 0, !.message = "", !.rows = NoRows,
                       !.shipmentId = 0, !.exists = FALSE]
      ELSE out

getAllShipments(table, header, env) ==
    IF getEmailFromToken(header) = Thrown
         THEN Threw(table, Caught(env, "Failed to retrieve shipments"))
    ELSE IF ~env.dbOk THEN Failed(table, Caught(env, "Failed to retrieve shipments"))
    ELSE AfterStat(Outcome(200, "", Shipment_getAll(table, getEmailFromToken(header)),
                 0, FALSE, table, TRUE, FALSE, logStat(env)))

getShipmentByOrderId(table, header, order_id, env) ==
    IF order_id = "" THEN Invalid(table, "Order ID is required")
    ELSE IF getEmailFromToken(header) = Thrown
         THEN Threw(table, Caught(env, "Failed to retrieve shipment"))
    ELSE IF ~env.dbOk THEN Failed(table, Caught(env, "Failed to retrieve shipment"))
    ELSE IF Shipment_getByOrderId(table, order_id, getEmailFromToken(header)) = {}
         THEN NotFound(table, "Shipment not found")
    ELSE AfterStat(Outcome(200, "",
                 Shipment_getByOrderId(table, order_id, getEmailFromToken(header)),
                 0, FALSE, table, TRUE, FALSE, logStat(env)))

\* Mutant of verifyShipment: the query is issued before the body is looked at.
verifyShipment_QueryFirst(table, header, body, env) ==
    IF getEmailFromToken(header) = Thrown
         THEN Threw(table, Caught(env, "Failed to verify shipment"))
    ELSE IF ~env.dbOk THEN Failed(table, Caught(env, "Failed to verify shipment"))
    ELSE IF Falsy(body, "order_id")
         THEN Outcome(400, "Order ID is required", NoRows, 0, FALSE, table,
                      TRUE, FALSE, "none")
    ELSE AfterStat(Outcome(200, "", NoRows, 0,
                 Shipment_exists(table, body.order_id, getEmailFromToken(header)),
                 table, TRUE, FALSE, logStat(env)))

verifyShipment(table, header, body, env) ==
    IF Falsy(body, "order_id") THEN Invalid(table, "Order ID is required")
    ELSE IF getEmailFromToken(header) = Thrown
         THEN Threw(table, Caught(env, "Failed to verify shipment"))
    ELSE IF ~env.dbOk THEN Failed(table, Caught(env, "Failed to verify shipment"))
    ELSE AfterStat(Outcome(200, "", NoRows, 0,
                 Shipment_exists(table, body.order_id, getEmailFromToken(header)),
                 table, TRUE, FALSE, logStat(env)))

\* The shipmentData object createShipment builds from the body; the two
\* defaults are two evaluations of new Date(), at the instants now and later.
ShipmentData(body, now, later) ==
    [order_id |-> body.order_id,
     recipient_name |-> body.recipient_name,
     recipient_email |-> body.recipient_email,
     recipient_phone |-> body.recipient_phone,
     delivery_address |-> body.delivery_address,
     postal_number |-> body.postal_number,
     city |-> body.city,
     country |-> body.country,
     delivery_status |-> body.delivery_status,
     tracking_number |-> OrDefault(body, "tracking_number", null),
     weight |-> body.weight,
     estimated_cost |-> body.estimated_cost,
     created_at |-> OrDefault(body, "created_at", now),
     updated_at |-> OrDefault(body, "updated_at", later)]

\* Mutant of MissingRequired: tracking_number demanded with the others.
MissingRequired_WithTracking(body) ==
    \E f \in RequiredFields \cup {"tracking_number"} : Falsy(body, f)

\* The check of lines 109-123: some required field is falsy.
MissingRequired(body) == \E f \in RequiredFields : Falsy(body, f)

createShipment(table, header, body, env, now, later, id) ==
    IF MissingRequired(body) THEN Invalid(table, "All fields are required")
    ELSE IF ~env.dbOk THEN Failed(table, Caught(env, "Failed to create shipment"))
    ELSE AfterStat(Outcome(201, "Shipment created successfully", NoRows, id, FALSE,
                 Shipment_create(table, ShipmentData(body, now, later), id),
                 TRUE, FALSE, logStat(env)))

updateTimestamp(table, header, id, env, now) ==
    IF id = 0 THEN Invalid(table, "Shipment ID is required")
    ELSE IF getEmailFromToken(header) = Thrown
         THEN Threw(table, Caught(env, "Failed to update timestamp"))
    ELSE IF ~env.dbOk THEN Failed(table, Caught(env, "Failed to update timestamp"))
    ELSE IF AffectedById(table, id, getEmailFromToken(header)) = 0
         THEN NotFound(table, "Shipment not found")
    ELSE AfterStat(Outcome(200, "Timestamp updated successfully", NoRows, 0, FALSE,
                 Shipment_updateTimestamp(table, id, getEmailFromToken(header), now),
                 TRUE, FALSE, logStat(env)))

updateDeliveryStatus(table, header, id, body, env) ==
    IF id = 0 \/ Falsy(body, "delivery_status")
         THEN Invalid(table, "Shipment ID and delivery_status are required")
    ELSE IF getEmailFromToken(header) = Thrown
         THEN Threw(table, Caught(env, "Failed to update delivery status"))
    ELSE IF ~env.dbOk THEN Failed(table, Caught(env, "Failed to update delivery status"))
    ELSE IF AffectedById(table, id, getEmailFromToken(header)) = 0
         THEN NotFound(table, "Shipment not found")
    ELSE AfterStat(Outcome(200, "Delivery status updated successfully", NoRows, 0, FALSE,
                 Shipment_updateDeliveryStatus(table, id, getEmailFromToken(header),
                                               body.delivery_status),
                 TRUE, FALSE, logStat(env)))

deleteShipment(table, header, id, env) ==
    IF id = 0 THEN Invalid(table, "Shipment ID is required")
    ELSE IF getEmailFromToken(header) = Thrown
         THEN Threw(table, Caught(env, "Failed to delete shipment"))
    ELSE IF ~env.dbOk THEN Failed(table, Caught(env, "Failed to delete shipment"))
    ELSE IF AffectedById(table, id, getEmailFromToken(header)) = 0
         THEN NotFound(table, "Shipment not found")
    ELSE AfterStat(Outcome(200, "Shipment deleted successfully", NoRows, 0, FALSE,
                 Shipment_delete(table, id, getEmailFromToken(header)),
                 TRUE, FALSE, logStat(env)))

deleteAllShipments(table, header, env) ==
    IF getEmailFromToken(header) = Thrown
         THEN Threw(table, Caught(env, "Failed to delete shipments"))
    ELSE IF ~env.dbOk THEN Failed(table, Caught(env, "Failed to delete shipments"))
    ELSE IF AffectedByOwner(table, getEmailFromToken(header)) = 0
         THEN NotFound(table, "No shipments to delete")
    ELSE AfterStat(Outcome(200, "All shipments deleted successfully", NoRows, 0, FALSE,
                 Shipment_deleteAll(table, getEmailFromToken(header)),
                 TRUE, FALSE, logStat(env)))

(***************************************************************************)
(* The GraphQL resolvers of server.js (mounted at /graphql, outside the    *)
(* router: neither the request log nor the token middleware runs, and the  *)
(* resolvers do not read the Authorization header the request carries).    *)
(***************************************************************************)
graphqlShipments(table, env) ==
    IF ~env.dbOk
         THEN Outcome(200, "Failed to fetch shipments", NoRows, 0, FALSE,
                      table, TRUE, TRUE, "none")
    ELSE Outcome(200, "", table, 0, FALSE, table, TRUE, FALSE, "none")

graphqlShipmentById(table, id, env) ==
    IF ~env.dbOk
         THEN Outcome(200, "Failed to fetch shipment", NoRows, 0, FALSE,
                      table, TRUE, TRUE, "none")
    ELSE IF {r \in table : r.id = id} = {}
         THEN Outcome(200, "Failed to fetch shipment", NoRows, 0, FALSE,
                      table, TRUE, FALSE, "none")
    ELSE Outcome(200, "", {r \in table : r.id = id}, 0, FALSE,
                 table, TRUE, FALSE, "none")

(***************************************************************************)
(* The health endpoint of server.js: the handler sends its fixed answer    *)
(* and reads neither the request nor the database.                         *)
(***************************************************************************)
health(table, env) ==
    Outcome(200, "Service is healthy", NoRows, 0, FALSE, table, FALSE, FALSE, "none")

(***************************************************************************)
(* Requests.                                                               *)
(***************************************************************************)
EmptyBody == [f \in {} |-> ""]
Without(body, f) == [g \in DOMAIN body \ {f} |-> body[g]]
With(body, f, v) == [g \in DOMAIN body \cup {f} |-> IF g = f THEN v ELSE body[g]]

\* A create body carrying every required field.
FullBody(order_id, recipient_email, delivery_status) ==
    [order_id |-> order_id,
     recipient_name |-> "Ana",
     recipient_email |-> recipient_email,
     recipient_phone |-> "555",
     delivery_address |-> "Main 1",
     postal_number |-> 2000,
     city |-> "Maribor",
     country |-> "SI",
     delivery_status |-> delivery_status,
     weight |-> 2,
     estimated_cost |-> 10]
BaseBody == FullBody("ORD1", "a@x.com", "delivered")

\* The create bodies tried: complete ones for every order id, recipient and
\* status (none with a tracking_number); the base body with one required
\* field dropped; with an empty order_id; with a zero cost.
CreateBodies ==
    {FullBody(o, e, s) : o \in OrderIds, e \in Idents, s \in StatusInputs}
    \cup {Without(BaseBody, f) : f \in RequiredFields}
    \cup {With(BaseBody, "order_id", ""),
          With(BaseBody, "estimated_cost", 0)}
StatusBodies ==
    {EmptyBody} \cup {[delivery_status |-> s] : s \in StatusInputs \cup {""}}
VerifyBodies == {EmptyBody} \cup {[order_id |-> o] : o \in OrderIds}

Ids == 1..MaxId

\* The errors the database driver raises when a statement fails.
DriverErrors == {"ECONNREFUSED", "ER_DATA_TOO_LONG"}

\* The environment of a request: whether the insert into command_log, the
\* statement on shipments and the statistics ping succeed; the ping is
\* answered, and a failing statement fails with a refused connection.
Env(logOk, dbOk, statOk) ==
    [logOk |-> logOk, dbOk |-> dbOk, statOk |-> statOk,
     statHangs |-> FALSE, error |-> "ECONNREFUSED", tokenExpires |-> FALSE]
\* The statement on shipments fails with the given driver error.
DbFailure(error) == [Env(TRUE, FALSE, TRUE) EXCEPT !.error = error]
\* Everything succeeds up to the ping, which is never answered.
StatHangs == [Env(TRUE, TRUE, TRUE) EXCEPT !.statHangs = TRUE]
\* The validity of the token ends after the middleware has verified it and
\* before the handler verifies it again.
TokenExpires == [Env(TRUE, TRUE, TRUE) EXCEPT !.tokenExpires = TRUE]

\* The header as jwt.verify sees it when the handler runs.
AtHandler(header, env) ==
    IF env.tokenExpires /\ Len(header) >= 2
      THEN <<header[1], [header[2] EXCEPT !.expired = TRUE]>>
      ELSE header

\* The routes of /api/shipments, those keyed by a shipment id, and the
\* queries of /graphql.
RestOps ==
    {"getAllShipments", "getShipmentByOrderId", "verifyShipment", "createShipment",
     "updateDeliveryStatus", "updateTimestamp", "deleteShipment", "deleteAllShipments"}
ByIdOps == {"updateDeliveryStatus", "updateTimestamp", "deleteShipment"}
GraphQLOps == {"graphqlShipments", "graphqlShipmentById"}

\* The requests of the main specification: callers a and b with verified
\* tokens and a caller without a header; every create, status and verify
\* body; the table statement may fail.
Inputs ==
    [headers |-> {NoHeader,
                  Bearer(Token("jwt", "good", FALSE, "a@x.com", "a@x.com")),
                  Bearer(Token("jwt", "good", FALSE, "b@x.com", "b@x.com"))},
     envs |-> {Env(TRUE, TRUE, TRUE), TokenExpires}
              \cup {DbFailure(e) : e \in DriverErrors},
     ops |-> RestOps \cup GraphQLOps,
     overlap |-> FALSE,
     ticking |-> FALSE,
     ids |-> Ids,
     orderIds |-> OrderIds,
     createBodies |-> CreateBodies,
     statusBodies |-> StatusBodies,
     verifyBodies |-> VerifyBodies]

\* A request the server has accepted and not answered, with what it asks
\* once the router has read it: "arrived" while it waits for the insert of
\* logRequest (or, at /graphql, for its resolver's statement), "querying"
\* while its handler waits for its statement on the table, "pinging" while
\* the handler waits for the statistics ping.  `now` and `later` are the
\* instants the handler read from the clock before its statement.
InFlight(op, logged, phase, header, id, order_id, body, now, later) ==
    [op |-> op, logged |-> logged, phase |-> phase, header |-> header, id |-> id,
     order_id |-> order_id, body |-> body, now |-> now, later |-> later]
One(request) == SetToBag({request})

\* A request that has arrived and is not read further yet.
Arrived(op, logged) ==
    InFlight(op, logged, "arrived", NoHeader, 0, "", EmptyBody, 0, 0)

\* An arrived request, read by the router and its handler.
Asking(request, header, id, order_id, body, now, later) ==
    InFlight(request.op, request.logged, "querying", header, id, order_id, body,
             now, later)

\* A request whose response is decided and waits for the ping to settle.
Pinging(request) ==
    InFlight(request.op, "none", "pinging", NoHeader, 0, "", EmptyBody, 0, 0)

\* The record kept of a request and its response.
Served(request, reached, owner, out) ==
    [op |-> request.op, header |-> request.header, id |-> request.id,
     order_id |-> request.order_id, body |-> request.body,
     logged |-> request.logged, now |-> request.now, later |-> request.later,
     reached |-> reached, owner |-> owner,
     status |-> out.status, message |-> out.message, rows |-> out.rows,
     shipmentId |-> out.shipmentId, exists |-> out.exists,
     queried |-> out.queried, dbError |-> out.dbError, stat |-> out.stat,
     pings |-> out.pings]

\* logRequest.js: the insert into command_log is attempted; its failure is
\* caught and next() is called either way.
logRequest(env) == IF env.logOk THEN "appended" ELSE "failed"

\* No response was decided in the latest step.
Idle ==
    Served(Arrived("none", "none"), FALSE, undefined,
           Outcome(0, "", NoRows, 0, FALSE, {}, FALSE, FALSE, "none"))

\* A response sent by the token middleware: the controller is not called.
Refused(table, auth) ==
    Outcome(auth.status, auth.message, NoRows, 0, FALSE, table, FALSE, FALSE, "none")

\* The arrived requests of a route, and the requests whose statement is
\* pending.
ArrivedAt(op) ==
    {r \in BagToSet(inflight) : r.op = op /\ r.phase = "arrived"}
Querying == {r \in BagToSet(inflight) : r.phase = "querying"}

\* What becomes of a request once its statement has settled and its handler
\* has run on: it waits for the ping, or it is over (answered, or its
\* handler suspended for good on a ping that is never answered).
AfterHandler(request, out) ==
    IF out.stat \in {"sent", "failed"}
      THEN (inflight (-) One(request)) (+) One(Pinging(request))
      ELSE inflight (-) One(request)

\* The handler the router runs for a route of /api/shipments, on a given
\* table and environment, with the instants it reads from the clock.
Handle(op, header, id, order_id, body, table, env, now, later, newId) ==
    CASE op = "getAllShipments" -> getAllShipments(table, header, env)
      [] op = "getShipmentByOrderId" ->
             getShipmentByOrderId(table, header, order_id, env)
      [] op = "verifyShipment" -> verifyShipment(table, header, body, env)
      [] op = "createShipment" ->
             createShipment(table, header, body, env, now, later, newId)
      [] op = "updateDeliveryStatus" ->
             updateDeliveryStatus(table, header, id, body, env)
      [] op = "updateTimestamp" -> updateTimestamp(table, header, id, env, now)
      [] op = "deleteShipment" -> deleteShipment(table, header, id, env)
      [] op = "deleteAllShipments" -> deleteAllShipments(table, header, env)

\* A request arrives: at /api/shipments logRequest awaits its insert, and
\* the server turns to other requests meanwhile.
Arrive(I) ==
    \E op \in I.ops :
    \E logged \in {IF op \in RestOps THEN logRequest(env) ELSE "none" : env \in I.envs} :
        /\ BagCardinality(inflight) < (IF I.overlap THEN MaxInFlight ELSE 1)
        /\ inflight' = inflight (+) One(Arrived(op, logged))
        /\ last' = Idle
        /\ before' = shipments
        /\ UNCHANGED <<shipments, nextId, clock>>

\* Mutant of Route: a failed insert into command_log is passed to next(),
\* and the request ends in a 500 before the token middleware runs.
Route_LogFailureFatal(request, asked, out) ==
    /\ before' = shipments
    /\ shipments' = shipments
    /\ IF request.logged = "failed"
         THEN /\ last' = Served(asked, FALSE, undefined,
                                Refused(shipments, Refusal(500, "Internal Server Error")))
              /\ inflight' = inflight (-) One(request)
         ELSE IF authenticateToken(asked.header) # Pass
         THEN /\ last' = Served(asked, FALSE, undefined,
                                Refused(shipments, authenticateToken(asked.header)))
              /\ inflight' = inflight (-) One(request)
         ELSE IF ~out.queried
         THEN /\ last' = Served(asked, TRUE, getEmailFromToken(asked.header), out)
              /\ inflight' = inflight (-) One(request)
         ELSE /\ last' = Idle
              /\ inflight' = (inflight (-) One(request)) (+) One(asked)

\* A route of shipmentsRoutes.js, for a request whose logRequest is over,
\* in the turn of its next(): authenticateToken, then the handler up to its
\* first await.  `out` is what the handler makes of the request: when it
\* answers without a statement (400, or 500 from getEmailFromToken) that
\* response is sent; otherwise its statement is issued and the handler is
\* suspended at `await Shipment.<method>()`.
Route(request, asked, out) ==
    /\ before' = shipments
    /\ shipments' = shipments
    /\ IF authenticateToken(asked.header) # Pass
         THEN /\ last' = Served(asked, FALSE, undefined,
                                Refused(shipments, authenticateToken(asked.header)))
              /\ inflight' = inflight (-) One(request)
         ELSE IF ~out.queried
         THEN /\ last' = Served(asked, TRUE, getEmailFromToken(asked.header), out)
              /\ inflight' = inflight (-) One(request)
         ELSE /\ last' = Idle
              /\ inflight' = (inflight (-) One(request)) (+) One(asked)

Init ==
    /\ shipments = {}
    /\ nextId = 1
    /\ clock = 1
    /\ before = {}
    /\ last = Idle
    /\ inflight = EmptyBag

\* The statement of a suspended handler is executed on the table as it is
\* now, and the handler runs on from its await: 500 when the statement
\* failed, 404 when it found nothing, otherwise up to the awaited ping.
Resume(I) ==
    \E request \in Querying, env \in {e \in I.envs : ~e.tokenExpires} :
        /\ before' = shipments
        /\ last' = Served(request, TRUE, getEmailFromToken(request.header),
                          Handle(request.op, request.header, request.id,
                                 request.order_id, request.body, shipments, env,
                                 request.now, request.later, nextId))
        /\ shipments' = Handle(request.op, request.header, request.id,
                               request.order_id, request.body, shipments, env,
                               request.now, request.later, nextId).table
        /\ \/ nextId <= MaxId
           \/ request.op # "createShipment"
           \/ shipments' = shipments
        /\ nextId' = IF request.op = "createShipment" /\ shipments' # shipments
                       THEN nextId + 1 ELSE nextId
        /\ inflight' = AfterHandler(request, Handle(request.op, request.header, request.id,
                                 request.order_id, request.body, shipments, env,
                                 request.now, request.later, nextId))
        /\ UNCHANGED clock

\* The ping of a request has settled and its response is written out.
Complete ==
    \E request \in BagToSet(inflight) :
        /\ request.phase = "pinging"
        /\ inflight' = inflight (-) One(request)
        /\ last' = Idle
        /\ before' = shipments
        /\ UNCHANGED <<shipments, nextId, clock>>

\* The environments of the turn a handler starts in: its token is still
\* valid, or has expired since the middleware verified it.
Turn(I) == {IF e.tokenExpires THEN TokenExpires ELSE Env(TRUE, TRUE, TRUE) : e \in I.envs}

\* GET /api/shipments
GetAllShipments(I) ==
    \E request \in ArrivedAt("getAllShipments"),
       header \in I.headers, env \in Turn(I) :
        /\ Route(request, Asking(request, header, 0, "", EmptyBody, 0, 0),
                 getAllShipments(shipments, AtHandler(header, env), env))
        /\ UNCHANGED <<nextId, clock>>

\* GET /api/shipments/:order_id
GetShipmentByOrderId(I) ==
    \E request \in ArrivedAt("getShipmentByOrderId"),
       header \in I.headers, order_id \in I.orderIds, env \in Turn(I) :
        /\ Route(request, Asking(request, header, 0, order_id, EmptyBody, 0, 0),
                 getShipmentByOrderId(shipments, AtHandler(header, env), order_id, env))
        /\ UNCHANGED <<nextId, clock>>

\* POST /api/shipments/verify
VerifyShipment(I) ==
    \E request \in ArrivedAt("verifyShipment"),
       header \in I.headers, body \in I.verifyBodies, env \in Turn(I) :
        /\ Route(request, Asking(request, header, 0, "", body, 0, 0),
                 verifyShipment(shipments, AtHandler(header, env), body, env))
        /\ UNCHANGED <<nextId, clock>>

\* The instants the second new Date() of createShipment can return.
Later(I) == IF I.ticking /\ clock < MaxClock THEN {clock, clock + 1} ELSE {clock}

\* POST /api/shipments: the handler reads the clock twice before its
\* statement is issued.
CreateShipment(I) ==
    \E request \in ArrivedAt("createShipment"),
       header \in I.headers, body \in I.createBodies, env \in Turn(I),
       later \in Later(I) :
        /\ Route(request, Asking(request, header, 0, "", body, clock, later),
                 createShipment(shipments, AtHandler(header, env), body, env,
                                clock, later, nextId))
        /\ clock' = later
        /\ UNCHANGED nextId

\* PUT /api/shipments/:id/delivery-status
UpdateDeliveryStatus(I) ==
    \E request \in ArrivedAt("updateDeliveryStatus"),
       header \in I.headers, id \in I.ids, body \in I.statusBodies, env \in Turn(I) :
        /\ Route(request, Asking(request, header, id, "", body, 0, 0),
                 updateDeliveryStatus(shipments, AtHandler(header, env), id, body, env))
        /\ UNCHANGED <<nextId, clock>>

\* PUT /api/shipments/:id/timestamp: Shipment.updateTimestamp reads the
\* clock when it builds its statement.
UpdateTimestamp(I) ==
    \E request \in ArrivedAt("updateTimestamp"),
       header \in I.headers, id \in I.ids, env \in Turn(I) :
        /\ Route(request, Asking(request, header, id, "", EmptyBody, clock, clock),
                 updateTimestamp(shipments, AtHandler(header, env), id, env, clock))
        /\ UNCHANGED <<nextId, clock>>

\* DELETE /api/shipments/:id
DeleteShipment(I) ==
    \E request \in ArrivedAt("deleteShipment"),
       header \in I.headers, id \in I.ids, env \in Turn(I) :
        /\ Route(request, Asking(request, header, id, "", EmptyBody, 0, 0),
                 deleteShipment(shipments, AtHandler(header, env), id, env))
        /\ UNCHANGED <<nextId, clock>>

\* DELETE /api/shipments
DeleteAllShipments(I) ==
    \E request \in ArrivedAt("deleteAllShipments"),
       header \in I.headers, env \in Turn(I) :
        /\ Route(request, Asking(request, header, 0, "", EmptyBody, 0, 0),
                 deleteAllShipments(shipments, AtHandler(header, env), env))
        /\ UNCHANGED <<nextId, clock>>

\* POST /graphql { shipments { ... } }: the statement of the resolver of a
\* request that has arrived is executed and the answer is sent.
GraphQLShipments(I) ==
    \E request \in ArrivedAt("graphqlShipments"),
       header \in I.headers, env \in I.envs :
        /\ before' = shipments
        /\ last' = Served(Asking(request, header, 0, "", EmptyBody, 0, 0), TRUE,
                          undefined, graphqlShipments(shipments, env))
        /\ inflight' = inflight (-) One(request)
        /\ UNCHANGED <<shipments, nextId, clock>>

\* POST /graphql { shipmentById(id: ...) { ... } }
GraphQLShipmentById(I) ==
    \E request \in ArrivedAt("graphqlShipmentById"),
       header \in I.headers, id \in I.ids, env \in I.envs :
        /\ before' = shipments
        /\ last' = Served(Asking(request, header, id, "", EmptyBody, 0, 0), TRUE,
                          undefined, graphqlShipmentById(shipments, id, env))
        /\ inflight' = inflight (-) One(request)
        /\ UNCHANGED <<shipments, nextId, clock>>

\* GET /api/health: mounted on the app itself, outside the router: neither
\* the request log nor the token middleware runs, and the handler answers
\* in the turn the request arrives in.
Health(I) ==
    \E header \in I.headers, env \in I.envs :
        /\ before' = shipments
        /\ last' = Served(Asking(Arrived("health", "none"), header, 0, "", EmptyBody,
                                 0, 0), TRUE, undefined, health(shipments, env))
        /\ UNCHANGED <<shipments, nextId, clock, inflight>>

Next ==
    \/ Arrive(Inputs)
    \/ Resume(Inputs)
    \/ Complete
    \/ GetAllShipments(Inputs)
    \/ GetShipmentByOrderId(Inputs)
    \/ VerifyShipment(Inputs)
    \/ CreateShipment(Inputs)
    \/ UpdateDeliveryStatus(Inputs)
    \/ UpdateTimestamp(Inputs)
    \/ DeleteShipment(Inputs)
    \/ DeleteAllShipments(Inputs)
    \/ GraphQLShipments(Inputs)
    \/ GraphQLShipmentById(Inputs)

Spec == Init /\ [][Next]_vars

(***************************************************************************)
(* The same service under every kind of Authorization header: no header,   *)
(* a scheme word alone, a verified token after the scheme word Basic,      *)
(* expired, forged and unparsable tokens, and                              *)
(* verified tokens with every pair of name and email claims; one order id, *)
(* and one valid and one invalid body of each kind; the table statement    *)
(* succeeds or fails, or the token expires before the handler verifies it  *)
(* again.                                                                  *)
(***************************************************************************)
AuthInputs ==
    [headers |-> {NoHeader, <<"Bearer">>, BasicHeader}
                 \cup {Bearer(t) : t \in GoodTokens
                                         \cup {ExpiredToken, ForgedToken, GarbageToken}},
     envs |-> {Env(TRUE, TRUE, TRUE), DbFailure("ECONNREFUSED"), TokenExpires},
     ops |-> RestOps \cup GraphQLOps,
     overlap |-> FALSE,
     ticking |-> FALSE,
     ids |-> Ids,
     orderIds |-> {"ORD1"},
     createBodies |-> {FullBody("ORD1", e, "delivered") : e \in Idents}
                      \cup {Without(BaseBody, "weight")},
     statusBodies |-> {EmptyBody, [delivery_status |-> "in transit"]},
     verifyBodies |-> {EmptyBody, [order_id |-> "ORD1"]}]

AuthNext ==
    \/ Arrive(AuthInputs)
    \/ Resume(AuthInputs)
    \/ Complete
    \/ GetAllShipments(AuthInputs)
    \/ GetShipmentByOrderId(AuthInputs)
    \/ VerifyShipment(AuthInputs)
    \/ CreateShipment(AuthInputs)
    \/ UpdateDeliveryStatus(AuthInputs)
    \/ UpdateTimestamp(AuthInputs)
    \/ DeleteShipment(AuthInputs)
    \/ DeleteAllShipments(AuthInputs)
    \/ GraphQLShipments(AuthInputs)
    \/ GraphQLShipmentById(AuthInputs)

AuthSpec == Init /\ [][AuthNext]_vars

(***************************************************************************)
(* The same service while the wall clock advances between its steps: two   *)
(* verified callers, one order id, and create bodies for either recipient. *)
(***************************************************************************)
\* A complete create body that also carries id, created_at and updated_at.
StampedBody ==
    With(With(With(BaseBody, "created_at", 0), "updated_at", 0), "id", 7)

\* new Date() returns a later instant.
Tick ==
    /\ clock < MaxClock
    /\ clock' = clock + 1
    /\ last' = Idle
    /\ before' = shipments
    /\ UNCHANGED <<shipments, nextId, inflight>>

TimeInputs ==
    [headers |-> {Bearer(Token("jwt", "good", FALSE, e, e)) : e \in Idents},
     envs |-> {Env(TRUE, TRUE, TRUE)},
     ops |-> RestOps \cup GraphQLOps,
     overlap |-> FALSE,
     ticking |-> TRUE,
     ids |-> Ids,
     orderIds |-> {"ORD1"},
     createBodies |-> {BaseBody, FullBody("ORD1", "b@x.com", "delivered")},
     statusBodies |-> {[delivery_status |-> "in transit"]},
     verifyBodies |-> {[order_id |-> "ORD1"]}]

TimeNext ==
    \/ Arrive(TimeInputs)
    \/ Resume(TimeInputs)
    \/ Complete
    \/ Tick
    \/ GetAllShipments(TimeInputs)
    \/ GetShipmentByOrderId(TimeInputs)
    \/ VerifyShipment(TimeInputs)
    \/ CreateShipment(TimeInputs)
    \/ UpdateDeliveryStatus(TimeInputs)
    \/ UpdateTimestamp(TimeInputs)
    \/ DeleteShipment(TimeInputs)
    \/ DeleteAllShipments(TimeInputs)
    \/ GraphQLShipments(TimeInputs)
    \/ GraphQLShipmentById(TimeInputs)

TimeSpec == Init /\ [][TimeNext]_vars

(***************************************************************************)
(* The same service with its side channels failing: the insert into        *)
(* command_log, the table statement and the statistics ping each succeed   *)
(* or fail, or the ping is never answered; requests come without a header, *)
(* with a forged token or from one verified caller, with one valid and one *)
(* invalid body of each kind.                                              *)
(***************************************************************************)
SideInputs ==
    [headers |-> {NoHeader, Bearer(ForgedToken),
                  Bearer(Token("jwt", "good", FALSE, "a@x.com", "a@x.com"))},
     envs |-> {Env(l, d, s) : l \in BOOLEAN, d \in BOOLEAN, s \in BOOLEAN}
              \cup {StatHangs},
     ops |-> RestOps \cup GraphQLOps,
     overlap |-> FALSE,
     ticking |-> FALSE,
     ids |-> Ids,
     orderIds |-> {"ORD1"},
     createBodies |-> {BaseBody, Without(BaseBody, "weight")},
     statusBodies |-> {EmptyBody, [delivery_status |-> "in transit"]},
     verifyBodies |-> {EmptyBody, [order_id |-> "ORD1"]}]

SideNext ==
    \/ Arrive(SideInputs)
    \/ Resume(SideInputs)
    \/ Complete
    \/ GetAllShipments(SideInputs)
    \/ GetShipmentByOrderId(SideInputs)
    \/ VerifyShipment(SideInputs)
    \/ CreateShipment(SideInputs)
    \/ UpdateDeliveryStatus(SideInputs)
    \/ UpdateTimestamp(SideInputs)
    \/ DeleteShipment(SideInputs)
    \/ DeleteAllShipments(SideInputs)
    \/ GraphQLShipments(SideInputs)
    \/ GraphQLShipmentById(SideInputs)
    \/ Health(SideInputs)

SideSpec == Init /\ [][SideNext]_vars

(***************************************************************************)
(* The same service with requests overlapping: up to MaxInFlight requests  *)
(* are accepted before any of them is answered, a handler runs its         *)
(* statement on the table the requests served before it have left, and     *)
(* responses are written in the order the pings settle.  Two owners create *)
(* shipments for themselves and for each other, with an updated_at before  *)
(* the current instant in the body, and update, stamp and delete them.     *)
(***************************************************************************)
OverlapInputs ==
    [headers |-> {Bearer(Token("jwt", "good", FALSE, e, e)) : e \in Idents},
     envs |-> {Env(TRUE, TRUE, TRUE)},
     ops |-> {"createShipment", "updateDeliveryStatus", "updateTimestamp",
              "deleteShipment", "deleteAllShipments"},
     overlap |-> TRUE,
     ticking |-> FALSE,
     ids |-> {1},
     orderIds |-> {"ORD1"},
     createBodies |-> {With(FullBody("ORD1", e, "delivered"), "updated_at", 0) :
                           e \in Idents},
     statusBodies |-> {[delivery_status |-> "in transit"]},
     verifyBodies |-> {[order_id |-> "ORD1"]}]

OverlapNext ==
    \/ Arrive(OverlapInputs)
    \/ Resume(OverlapInputs)
    \/ Complete
    \/ CreateShipment(OverlapInputs)
    \/ UpdateDeliveryStatus(OverlapInputs)
    \/ UpdateTimestamp(OverlapInputs)
    \/ DeleteShipment(OverlapInputs)
    \/ DeleteAllShipments(OverlapInputs)

OverlapSpec == Init /\ [][OverlapNext]_vars

(***************************************************************************)
(* Creates overlapping while the wall clock advances: a create reads the   *)
(* clock, and other creates and ticks of the clock come before its insert  *)
(* is executed.  One caller creates shipments for either recipient, with   *)
(* and without values of its own for id, created_at and updated_at.        *)
(***************************************************************************)
StampInputs ==
    [headers |-> {Bearer(Token("jwt", "good", FALSE, "a@x.com", "a@x.com"))},
     envs |-> {Env(TRUE, TRUE, TRUE)},
     ops |-> {"createShipment"},
     overlap |-> TRUE,
     ticking |-> TRUE,
     ids |-> Ids,
     orderIds |-> {"ORD1"},
     createBodies |-> {BaseBody, StampedBody,
                       FullBody("ORD1", "b@x.com", "delivered")},
     statusBodies |-> {[delivery_status |-> "in transit"]},
     verifyBodies |-> {[order_id |-> "ORD1"]}]

StampNext ==
    \/ Arrive(StampInputs)
    \/ Resume(StampInputs)
    \/ Complete
    \/ Tick
    \/ CreateShipment(StampInputs)

StampSpec == Init /\ [][StampNext]_vars

(***************************************************************************)
(* Vocabulary of the properties.                                           *)
(***************************************************************************)
\* A request on which the table statement and the side channels all succeed.
AllOk == Env(TRUE, TRUE, TRUE)

\* The identity the credential of a request stands for: the owner key of its
\* verified token, undefined when the token does not verify.
Identity(header) ==
    IF authenticateToken(header) = Pass THEN getEmailFromToken(header) ELSE undefined

\* The headers of verified callers.
Callers == {Bearer(t) : t \in GoodTokens}

\* The request being answered had its statement executed while another
\* request had arrived, or had its own statement pending.
Overlapped == \E r \in BagToSet(inflight) : r.phase \in {"arrived", "querying"}

\* The request being answered was a create that answered 201.
Created == last.op = "createShipment" /\ last.status = 201
\* The row that create stored.
CreatedRows == {r \in shipments : r.id = last.shipmentId}

\* The request being answered reached the controller as the given route.
Reached(op) == last.op = op /\ last.reached

\* What the caller sees of an outcome: the status code and the JSON body.
Response(out) ==
    [status |-> out.status, message |-> out.message, rows |-> out.rows,
     shipmentId |-> out.shipmentId, exists |-> out.exists]

\* The handler of the request being answered threw at getEmailFromToken:
\* its second verification of the token failed, and no statement was issued.
TokenThrew == last.reached /\ last.status = 500 /\ ~last.queried

\* The environment the request being answered met, up to the text of the
\* driver's error, with the pings answered.
Met ==
    IF last.dbError THEN DbFailure("ECONNREFUSED")
    ELSE IF TokenThrew THEN TokenExpires
    ELSE AllOk

\* The request being answered, run again by its handler on another table
\* and environment with the same readings of the clock.
Rerun(table, env) ==
    Handle(last.op, AtHandler(last.header, env), last.id, last.order_id, last.body,
           table, env, last.now, last.later,
           IF shipments # before /\ last.op = "createShipment"
             THEN nextId - 1 ELSE nextId)

(***************************************************************************)
(* C1. Ownership isolation: a shipment created by a request authenticated  *)
(* as A is never returned (getAllShipments, getShipmentByOrderId,          *)
(* verifyShipment), modified (updateDeliveryStatus, updateTimestamp) or    *)
(* removed (deleteShipment, deleteAllShipments) by a request authenticated *)
(* as B # A.  Stated on the state right after the create: whatever request *)
(* a caller B sends next, the new row is not in its answer and is left as  *)
(* it is.                                                                  *)
(***************************************************************************)
C1_OwnershipIsolation ==
    Created =>
        \A b \in Callers :
            Identity(b) # last.owner =>
                \A r \in CreatedRows :
                    /\ r \notin getAllShipments(shipments, b, AllOk).rows
                    /\ r \notin getShipmentByOrderId(shipments, b, r.order_id, AllOk).rows
                    /\ ~verifyShipment(shipments, b, [order_id |-> r.order_id], AllOk).exists
                    /\ r \in updateDeliveryStatus(shipments, b, r.id,
                                                  [delivery_status |-> "in transit"],
                                                  AllOk).table
                    /\ r \in updateTimestamp(shipments, b, r.id, AllOk, clock + 1).table
                    /\ r \in deleteShipment(shipments, b, r.id, AllOk).table
                    /\ r \in deleteAllShipments(shipments, b, AllOk).table

(***************************************************************************)
(* C2. Every path that reads, updates or deletes shipment rows (the REST   *)
(* handlers and the GraphQL resolvers shipments and shipmentById) confines *)
(* its effect to rows whose recipient_email is the caller's identity: the  *)
(* rows a response returns, and the rows a request changed or removed, all *)
(* belong to the identity of the request's credential.                     *)
(***************************************************************************)
C2_EveryPathOwnerScoped ==
    /\ \A r \in last.rows : r.recipient_email = Identity(last.header)
    /\ last.op # "createShipment" =>
           \A r \in before \ shipments : r.recipient_email = Identity(last.header)

(***************************************************************************)
(* C3. The owner key the controller passes to the scoped repository calls  *)
(* is the email carried by the verified credential (so credentials with    *)
(* different emails never share an owner key, and credentials with the     *)
(* same email always do).                                                  *)
(***************************************************************************)
C3_OwnerKeyIsCredentialEmail ==
    (last.op \in RestOps \ {"createShipment"} /\ last.reached) =>
        last.owner = SecondWord(last.header).email

(***************************************************************************)
(* C4. Round trip: after createShipment by caller A answered 201 for       *)
(* order_id o, getShipmentByOrderId(o) by the same caller, with nothing in *)
(* between, answers 200 with a shipment whose id is the returned           *)
(* shipmentId, whose caller-supplied fields are the submitted ones and     *)
(* whose created_at and updated_at are present.                            *)
(***************************************************************************)
C4_CreateThenGetRoundTrip ==
    Created =>
        LET got == getShipmentByOrderId(shipments, last.header, last.body.order_id, AllOk)
        IN  /\ got.status = 200
            /\ \A r \in got.rows :
                   /\ r.id = last.shipmentId
                   /\ \A f \in RequiredFields : r[f] = last.body[f]
                   /\ r.created_at > 0
                   /\ r.updated_at > 0
            /\ got.rows # {}

(***************************************************************************)
(* C5. createShipment with one of the eleven required fields absent        *)
(* answers 400 and writes nothing: the stored shipments are the same       *)
(* before and after.  An absent tracking_number alone never causes the     *)
(* failure: a body whose required fields are all given is not answered 400 *)
(* for lacking tracking_number.                                            *)
(***************************************************************************)
C5_Required ==
    {"order_id", "recipient_name", "recipient_email", "recipient_phone",
     "delivery_address", "postal_number", "city", "country",
     "delivery_status", "weight", "estimated_cost"}

C5_MissingFieldIsRejected ==
    Reached("createShipment") =>
        /\ (\E f \in C5_Required : ~Has(last.body, f)) =>
               /\ last.status = 400
               /\ shipments = before
               /\ ~last.queried
        /\ ((\A f \in C5_Required : ~Falsy(last.body, f))
              /\ ~Has(last.body, "tracking_number")) =>
               last.status # 400

C5_Witness ==
    /\ Reached("createShipment")
    /\ ~Has(last.body, "weight")
    /\ last.status = 400
    /\ before # {}

(***************************************************************************)
(* C6. updateDeliveryStatus, updateTimestamp and deleteShipment on an id   *)
(* that does not exist, or exists but belongs to another owner than the    *)
(* caller, never answer success and leave every stored shipment as it was; *)
(* the answer is 404 whenever the request passed validation, its token was *)
(* still valid in the handler and the table statement did not fail.        *)
(***************************************************************************)
C6_NoOwnTarget ==
    ~\E r \in before : r.id = last.id /\ r.recipient_email = last.owner

C6_MissingOrForeignIsNotFound ==
    (last.op \in ByIdOps /\ last.reached /\ C6_NoOwnTarget) =>
        /\ last.status \notin {200, 201}
        /\ shipments = before
        /\ (/\ ~last.dbError
            /\ ~TokenThrew
            /\ last.op = "updateDeliveryStatus" => ~Falsy(last.body, "delivery_status"))
              => last.status = 404

\* A request on a row that exists and belongs to the other owner.
C6_Witness ==
    /\ last.op = "updateDeliveryStatus"
    /\ last.reached
    /\ \E r \in before : r.id = last.id /\ r.recipient_email # last.owner
    /\ last.status = 404
    /\ shipments = before

(***************************************************************************)
(* C7. deleteAllShipments for an owner with no shipments answers 404 and   *)
(* changes nothing; for an owner with N > 0 shipments it answers 200,      *)
(* removes exactly those N rows and no row of another owner, and           *)
(* getAllShipments by the same owner then returns the empty list.  The     *)
(* owner's shipments are those in the table when the handler's statement   *)
(* runs, whatever requests were served since this one arrived; stated on   *)
(* the requests whose token is still valid in the handler and whose        *)
(* statement does not fail.                                                *)
(***************************************************************************)
C7_Owned == {r \in before : r.recipient_email = last.owner}

C7_DeleteAllRemovesExactlyOwn ==
    (Reached("deleteAllShipments") /\ ~last.dbError /\ ~TokenThrew) =>
        /\ C7_Owned = {} => (last.status = 404 /\ shipments = before)
        /\ C7_Owned # {} =>
               /\ last.status = 200
               /\ shipments = before \ C7_Owned
               /\ Cardinality(before) - Cardinality(shipments) = Cardinality(C7_Owned)
               /\ getAllShipments(shipments, last.header, AllOk).status = 200
               /\ getAllShipments(shipments, last.header, AllOk).rows = {}

\* A bulk delete by an owner of one row, beside a row of the other owner,
\* served while another request was waiting.
C7_Witness ==
    /\ Reached("deleteAllShipments")
    /\ Overlapped
    /\ last.status = 200
    /\ C7_Owned # {}
    /\ before \ C7_Owned # {}
    /\ shipments = before \ C7_Owned

(***************************************************************************)
(* C8. A request with an expired credential and a request with no          *)
(* credential are both refused on every /api/shipments route: the          *)
(* controller is not reached, no shipment is read or written, and the two  *)
(* refusals carry different messages.                                      *)
(***************************************************************************)
C8_Refused ==
    /\ ~last.reached
    /\ ~last.queried
    /\ last.status \in {401, 403}
    /\ last.rows = {}
    /\ shipments = before

C8_ExpiredAndMissingRefused ==
    /\ (last.op \in RestOps /\ last.header = NoHeader) =>
           /\ C8_Refused
           /\ last.message # authenticateToken(Bearer(ExpiredToken)).message
    /\ (last.op \in RestOps /\ last.header = Bearer(ExpiredToken)) =>
           /\ C8_Refused
           /\ last.message # authenticateToken(NoHeader).message

\* An expired token on the delete route of a table that holds the token
\* owner's row.
C8_Witness ==
    /\ last.op = "deleteAllShipments"
    /\ last.header = Bearer(ExpiredToken)
    /\ C8_Refused
    /\ \E r \in shipments : r.recipient_email = ExpiredToken.name

(***************************************************************************)
(* C9. Authentication failures map to status codes: missing or malformed   *)
(* Authorization header -> 401; expired credential -> 401 with a message   *)
(* distinct from the missing-credential one; any other verification        *)
(* failure (bad signature, malformed token) -> 403.                        *)
(***************************************************************************)
C9_AuthFailureStatusCodes ==
    last.op \in RestOps =>
        /\ (last.header = NoHeader \/ Len(last.header) < 2) => last.status = 401
        /\ (Len(last.header) >= 2 /\ jwtVerify(last.header[2]) = "TokenExpiredError") =>
               /\ last.status = 401
               /\ last.message # authenticateToken(NoHeader).message
        /\ (Len(last.header) >= 2 /\ jwtVerify(last.header[2]) = "JsonWebTokenError") =>
               last.status = 403

(***************************************************************************)
(* C10. Every stored shipment's delivery_status is one of 'delivered',     *)
(* 'in transit', 'ready for pick up', 'shipment handed over':              *)
(* createShipment and updateDeliveryStatus given any other non-empty value *)
(* answer 400 and store or change nothing (looked at when the table        *)
(* statement itself does not fail).                                        *)
(***************************************************************************)
C10_StatusEnumerationEnforced ==
    /\ \A r \in shipments : r.delivery_status \in DeliveryStatuses
    /\ (/\ last.op \in {"createShipment", "updateDeliveryStatus"}
        /\ last.reached
        /\ ~last.dbError
        /\ Has(last.body, "delivery_status")
        /\ last.body.delivery_status \notin DeliveryStatuses \cup {""}) =>
           (last.status = 400 /\ shipments = before)

(***************************************************************************)
(* C11. For every stored shipment, created_at never changes after the row  *)
(* is created, and updated_at changes only as the effect of a successful   *)
(* updateTimestamp or updateDeliveryStatus on that row; no other operation *)
(* alters either timestamp.  Stated on every request: a row that was in    *)
(* the table before it and still is keeps its created_at, and keeps its    *)
(* updated_at unless the request was one of those two routes, answered     *)
(* 200 and named that row.                                                 *)
(***************************************************************************)
C11_TimestampsFrame ==
    \A r \in shipments, b \in before :
        r.id = b.id =>
            /\ r.created_at = b.created_at
            /\ r.updated_at # b.updated_at =>
                   /\ last.op \in {"updateTimestamp", "updateDeliveryStatus"}
                   /\ last.status = 200
                   /\ last.id = r.id

\* An updateTimestamp moved updated_at of its row, beside a second row of
\* the same owner that stayed as it was.
C11_Witness ==
    /\ Reached("updateTimestamp")
    /\ last.status = 200
    /\ \E r \in shipments, b \in before :
           /\ r.id = b.id /\ r.id = last.id
           /\ r.updated_at # b.updated_at
           /\ r.created_at = b.created_at
    /\ \E r \in shipments :
           r.id # last.id /\ r.recipient_email = last.owner /\ r \in before

(***************************************************************************)
(* C12. The id, created_at and updated_at of a newly created shipment are  *)
(* assigned by the server at creation time: values for these fields        *)
(* supplied in the create request body have no influence on the stored     *)
(* row.  Stated on the create that answered 201: the stored row carries    *)
(* the id the table handed out, and in its timestamps the two instants     *)
(* the handler read from the clock before it issued the insert.            *)
(***************************************************************************)
C12_ServerAssignsIdAndStamps ==
    Created =>
        \A r \in CreatedRows :
            /\ r.id = nextId - 1
            /\ r.created_at = last.now
            /\ r.updated_at = last.later

(***************************************************************************)
(* C13. Absence and foreign ownership are indistinguishable: for           *)
(* getShipmentByOrderId, updateDeliveryStatus, updateTimestamp and         *)
(* deleteShipment, the response (status code and body) to a request that   *)
(* targets a shipment owned by another identity is identical to the        *)
(* response the same request gets when no such shipment exists, in two     *)
(* runs that differ only in the other owners' rows.  Stated on every such  *)
(* request: its response is the one its handler gives on the caller's own  *)
(* rows together with any part of the other owners' rows.                  *)
(***************************************************************************)
C13_Own == WhereOwner(before, last.owner)

C13_AbsentOrForeignSameResponse ==
    (last.op \in ByIdOps \cup {"getShipmentByOrderId"} /\ last.reached) =>
        \A others \in SUBSET (before \ C13_Own) :
            Response(Rerun(C13_Own \cup others, Met)) = Response(last)

\* A request that named a shipment of another owner and was answered 404.
C13_Witness ==
    /\ last.op \in ByIdOps \cup {"getShipmentByOrderId"}
    /\ last.reached
    /\ last.status = 404
    /\ \E r \in before :
           /\ r.recipient_email # last.owner
           /\ r.id = last.id \/ r.order_id = last.order_id

(***************************************************************************)
(* C14. When a repository query fails (connectivity, constraint violation, *)
(* unexpected query error) during any shipment operation, the caller       *)
(* receives a 500 response whose body is a fixed generic message           *)
(* independent of the underlying error text, the handler completes (the    *)
(* process does not crash and later requests are still served), and no     *)
(* success response is sent for that request.  Stated on every request of  *)
(* /api/shipments whose statement failed: the answer is 500, the table is  *)
(* as before, the body is the one the handler sends for every driver       *)
(* error and repeats neither the driver's text nor the repository's, and   *)
(* the server goes on to wait for the next request.                        *)
(***************************************************************************)
C14_RepositoryFailureIsGeneric500 ==
    (last.op \in RestOps /\ last.dbError) =>
        /\ last.status = 500
        /\ shipments = before
        /\ \A e \in DriverErrors :
               Response(Rerun(before, DbFailure(e))) = Response(last)
        /\ last.message \notin DriverErrors \cup {Shipment_throw(e) : e \in DriverErrors}
        /\ ENABLED Arrive(Inputs)

\* A create with a complete body whose INSERT failed, with a row of the
\* caller already stored.
C14_Witness ==
    /\ Reached("createShipment")
    /\ last.dbError
    /\ last.status = 500
    /\ ~MissingRequired(last.body)
    /\ WhereOwner(shipments, last.owner) # {}

(***************************************************************************)
(* C15. Short-circuit ordering: a request that fails authentication        *)
(* (missing, expired or invalid credential) or fails required-field        *)
(* validation receives its error response without any query against the    *)
(* shipments table having been issued on its behalf; identity is resolved  *)
(* before input validation, and validation before the repository call.     *)
(* Stated on every request of /api/shipments: answered 401, 403 or 400 it  *)
(* issued no statement and left the table as it was; with a credential     *)
(* that does not verify it is answered 401 or 403 whatever its body; with  *)
(* a verified credential and a body that fails validation it is answered   *)
(* 400 whether or not the table statement would have succeeded.            *)
(***************************************************************************)
C15_InvalidInput ==
    \/ last.op = "verifyShipment" /\ Falsy(last.body, "order_id")
    \/ last.op = "createShipment" /\ MissingRequired(last.body)
    \/ last.op = "updateDeliveryStatus" /\ Falsy(last.body, "delivery_status")

C15_ShortCircuitOrdering ==
    last.op \in RestOps =>
        /\ last.status \in {400, 401, 403} =>
               (~last.queried /\ ~last.dbError /\ shipments = before)
        /\ authenticateToken(last.header) # Pass =>
               (~last.reached /\ last.status \in {401, 403})
        /\ (authenticateToken(last.header) = Pass /\ C15_InvalidInput) =>
               last.status = 400

\* A verify request with a verified credential and an empty body, answered
\* 400 while the table holds a row.
C15_Witness ==
    /\ Reached("verifyShipment")
    /\ C15_InvalidInput
    /\ last.status = 400
    /\ ~last.queried
    /\ shipments # {}

(***************************************************************************)
(* C16. A failure of the usage-statistics ping (remote service unreachable *)
(* or returning an error) never changes the primary response: the status   *)
(* code and body sent to the caller are the same as when the ping          *)
(* succeeds, the ping is not retried, and the shipments table ends in the  *)
(* same state.  Stated on every request whose ping failed: its response    *)
(* and the table it leaves are those of the same request with the ping     *)
(* accepted, and one ping was posted for it, as for that request.          *)
(***************************************************************************)
C16_PingFailureIsInvisible ==
    (last.op \in RestOps /\ last.stat = "failed") =>
        /\ Response(last) = Response(Rerun(before, AllOk))
        /\ shipments = Rerun(before, AllOk).table
        /\ Rerun(before, AllOk).stat = "sent"
        /\ last.pings = 1
        /\ Rerun(before, AllOk).pings = last.pings

\* A create whose ping failed, answered 201 with the row stored.
C16_Witness ==
    /\ Reached("createShipment")
    /\ last.stat = "failed"
    /\ last.pings = 1
    /\ last.status = 201
    /\ CreatedRows # {}

(***************************************************************************)
(* C17. The usage-statistics ping does not block the primary response:     *)
(* for every successful shipment operation the response is eventually      *)
(* sent to the caller even if the remote statistics service never answers  *)
(* (hangs forever), i.e. sending the response does not wait for the ping   *)
(* to complete.  Stated on every request of /api/shipments: once its       *)
(* handler has gone as far as the ping, a response has been sent.          *)
(***************************************************************************)
C17_PingDoesNotBlockResponse ==
    (last.op \in RestOps /\ last.stat # "none") => last.status \in {200, 201}

(***************************************************************************)
(* C18. For every inbound request to /api/shipments, whatever its outcome  *)
(* (including requests rejected with 401/403/400/404/500), an append of    *)
(* (method, endpoint) to the request log is attempted before the request   *)
(* is handled; if the append fails the error is swallowed and the request  *)
(* proceeds to the same response it would have received had the append     *)
(* succeeded.  Stated on every request of /api/shipments: the append was   *)
(* attempted, and the response and the table are those the token           *)
(* middleware and the handler give when the append succeeds, the table     *)
(* statement and the ping going as they did.                               *)
(***************************************************************************)
C18_LoggedEnv ==
    [Env(TRUE, ~last.dbError, last.stat # "failed")
        EXCEPT !.statHangs = (last.stat = "hung")]

C18_Expected ==
    IF authenticateToken(last.header) # Pass
      THEN Refused(before, authenticateToken(last.header))
      ELSE Rerun(before, C18_LoggedEnv)

C18_LogAttemptedAndSwallowed ==
    last.op \in RestOps =>
        /\ last.logged \in {"appended", "failed"}
        /\ Response(last) = Response(C18_Expected)
        /\ shipments = C18_Expected.table

\* A delete whose append to the log failed, answered 200 with the row gone.
C18_Witness ==
    /\ Reached("deleteShipment")
    /\ last.logged = "failed"
    /\ last.status = 200
    /\ shipments # before
(***************************************************************************)
(* C19. In every reachable state no two stored shipments share the same    *)
(* (order_id, recipient_email) pair: order_id is unique within an owner's  *)
(* scope, so getByOrderId(owner, order_id) matches at most one row after   *)
(* any sequence of create operations.                                      *)
(***************************************************************************)
C19_OrderIdUniquePerOwner ==
    /\ \A r, q \in shipments :
           (r.order_id = q.order_id /\ r.recipient_email = q.recipient_email) => r = q
    /\ \A o \in OrderIds, e \in Idents :
           Cardinality(WhereOrderOwner(shipments, o, e)) <= 1

(***************************************************************************)
(* C20. Shipment id is immutable and globally unique: in every reachable   *)
(* state all stored shipments have pairwise distinct ids, no operation     *)
(* changes the id of an existing row, and an id returned by a create is    *)
(* never the id of another row created earlier (also after deletions).     *)
(* Stated in two parts.  In every state: ids are pairwise distinct and     *)
(* below the table's AUTO_INCREMENT counter; a row whose id was in the     *)
(* table before the request is the same shipment (order, owner, creation   *)
(* instant) and any other row is the one a create just stored; a create    *)
(* answered 201 returns the id of exactly one row, which no row had        *)
(* before.  In every step: the counter never decreases and an id new to    *)
(* the table is at or above the counter's value before the step.           *)
(***************************************************************************)
C20_Ids(table) == {r.id : r \in table}

C20_IdsDistinctAndStable ==
    /\ \A r, q \in shipments : r.id = q.id => r = q
    /\ \A r \in shipments : r.id < nextId
    /\ \A r \in shipments :
           IF r.id \in C20_Ids(before)
             THEN \E b \in before :
                      /\ b.id = r.id
                      /\ b.order_id = r.order_id
                      /\ b.recipient_email = r.recipient_email
                      /\ b.created_at = r.created_at
             ELSE Created /\ r.id = last.shipmentId
    /\ Created =>
           /\ Cardinality(CreatedRows) = 1
           /\ last.shipmentId \notin C20_Ids(before)
           /\ Cardinality(shipments) = Cardinality(before) + 1

C20_IdsNeverReused ==
    /\ nextId' >= nextId
    /\ \A r \in shipments' : r.id \notin C20_Ids(shipments) => r.id >= nextId

C20_IdImmutableAndUnique ==
    []C20_IdsDistinctAndStable /\ [][C20_IdsNeverReused]_vars

\* A create answered 201 with id 2 after the row with id 1 was deleted and
\* the table was empty, while another request was waiting.
C20_Witness ==
    /\ Created
    /\ Overlapped
    /\ before = {}
    /\ last.shipmentId = 2
    /\ Cardinality(shipments) = 1

(***************************************************************************)
(* C21. After a shipment is created, the only operations of the running    *)
(* service that change any of its fields are updateDeliveryStatus          *)
(* (delivery_status) and updateTimestamp (updated_at): order_id, the       *)
(* recipient fields including recipient_email, the address fields,         *)
(* tracking_number, weight and estimated_cost of an existing row never     *)
(* change until the row is deleted.  Stated on every request: a row that   *)
(* was in the table before it and still is differs from what it was at     *)
(* most in delivery_status, and then the request was an                    *)
(* updateDeliveryStatus naming it, or in updated_at, and then the request  *)
(* was an updateTimestamp naming it.                                       *)
(***************************************************************************)
C21_FixedFields ==
    {"id", "order_id", "recipient_name", "recipient_email", "recipient_phone",
     "delivery_address", "postal_number", "city", "country", "tracking_number",
     "weight", "estimated_cost", "created_at"}

C21_OnlyStatusAndTimestampChange ==
    \A r \in shipments, b \in before :
        r.id = b.id =>
            /\ \A f \in C21_FixedFields : r[f] = b[f]
            /\ r.delivery_status # b.delivery_status =>
                   (Reached("updateDeliveryStatus") /\ last.id = r.id)
            /\ r.updated_at # b.updated_at =>
                   (Reached("updateTimestamp") /\ last.id = r.id)

\* An updateDeliveryStatus changed the status of its row and nothing else
\* of it.
C21_Witness ==
    /\ Reached("updateDeliveryStatus")
    /\ last.status = 200
    /\ \E r \in shipments, b \in before :
           /\ r.id = b.id /\ r.id = last.id
           /\ r.delivery_status # b.delivery_status
           /\ r.updated_at = b.updated_at
           /\ \A f \in C21_FixedFields : r[f] = b[f]

(***************************************************************************)
(* C22. A credential is accepted only when the Authorization header has    *)
(* the form 'Bearer <token>' with a token that verifies against the        *)
(* process-wide secret: a header with a different scheme word, or with no  *)
(* token after the scheme, is refused even if it contains a valid token    *)
(* string.  Stated on every request of /api/shipments that reached its     *)
(* handler: its header is the word Bearer followed by a token that         *)
(* verifies.                                                               *)
(***************************************************************************)
C22_OnlyBearerAccepted ==
    (last.op \in RestOps /\ last.reached /\ ~last.dbError) =>
        /\ Len(last.header) = 2
        /\ last.header[1] = "Bearer"
        /\ jwtVerify(last.header[2]) = "ok"

(***************************************************************************)
(* C23. The health endpoint answers without any credential and its answer  *)
(* reflects a connectivity probe against the persistence layer: it issues  *)
(* a probe query, reports healthy (200, status UP) when the probe succeeds *)
(* and does not report healthy when the persistence layer is unreachable.  *)
(* Stated on every request of /api/health: it was answered whatever its    *)
(* header, a statement was issued, and the answer is 200 exactly when the  *)
(* statement did not fail.                                                 *)
(***************************************************************************)
C23_HealthReflectsProbe ==
    last.op = "health" =>
        /\ last.reached
        /\ last.status # 0
        /\ last.queried
        /\ last.status = 200 <=> ~last.dbError

(***************************************************************************)
(* C24. createShipment accepts (201, one row inserted) every authenticated *)
(* request in which all required fields are present with values of the     *)
(* documented types, including the boundary value estimated_cost = 0       *)
(* (non-negative real); a validation failure is returned only when a       *)
(* required field is missing or malformed.  Stated on every create that    *)
(* reached its handler and whose INSERT did not fail: with a well-formed   *)
(* body it is answered 201 and the table has one row more, and it is       *)
(* answered 400 only when the body is not well-formed.                     *)
(***************************************************************************)
C24_WellFormed(body) ==
    /\ \A f \in RequiredFields : Has(body, f)
    /\ \A f \in RequiredFields \ NumberFields : body[f] # ""
    /\ body.delivery_status \in DeliveryStatuses
    /\ body.postal_number > 0
    /\ body.weight > 0
    /\ body.estimated_cost >= 0

C24_WellFormedCreateAccepted ==
    (Reached("createShipment") /\ ~last.dbError) =>
        /\ C24_WellFormed(last.body) =>
               /\ last.status = 201
               /\ Cardinality(shipments) = Cardinality(before) + 1
        /\ last.status = 400 => ~C24_WellFormed(last.body)

(***************************************************************************)
(* C25. Frame of scoped writes: a REST updateDeliveryStatus,               *)
(* updateTimestamp, deleteShipment or deleteAllShipments request whose     *)
(* resolved owner key is k leaves every stored row whose recipient_email   *)
(* differs from k exactly as it was (same fields, still present), for      *)
(* every id supplied and under any interleaving with requests of other     *)
(* owners.  Stated on every such request, after any sequence of requests   *)
(* of either owner: each row of another owner that was in the table before *)
(* the request is in it afterwards, unchanged.                             *)
(***************************************************************************)
C25_ScopedWrites ==
    {"updateDeliveryStatus", "updateTimestamp", "deleteShipment", "deleteAllShipments"}

C25_ForeignRowsUntouched ==
    (last.op \in C25_ScopedWrites /\ last.reached) =>
        \A b \in before : b.recipient_email # last.owner => b \in shipments

\* A scoped write changed the table while a row of another owner was in it
\* and another request was waiting.
C25_Witness ==
    /\ last.op \in C25_ScopedWrites
    /\ Overlapped
    /\ last.reached
    /\ last.status = 200
    /\ shipments # before
    /\ \E b \in before : b.recipient_email # last.owner

(***************************************************************************)
(* C26. verifyShipment and getShipmentByOrderId agree in every state: for  *)
(* the same caller and the same order_id, with no operation in between,    *)
(* verifyShipment returns {exists: true} exactly when getShipmentByOrderId *)
(* returns 200 with a shipment, and {exists: false} exactly when it        *)
(* returns 404; verifyShipment never changes the stored shipments.         *)
(* Stated on every verify answered 200, against the answer of              *)
(* getShipmentByOrderId to the same caller and order_id on the same table, *)
(* and on every getShipmentByOrderId answered 200 or 404, against the      *)
(* answer of verifyShipment.                                               *)
(***************************************************************************)
C26_Get == getShipmentByOrderId(before, last.header, last.body.order_id, AllOk)
C26_Verify == verifyShipment(before, last.header, [order_id |-> last.order_id], AllOk)

C26_VerifyAgreesWithGet ==
    /\ Reached("verifyShipment") => shipments = before
    /\ (Reached("verifyShipment") /\ last.status = 200) =>
           /\ last.exists <=> (C26_Get.status = 200 /\ C26_Get.rows # {})
           /\ ~last.exists <=> C26_Get.status = 404
    /\ (Reached("getShipmentByOrderId") /\ last.status \in {200, 404}) =>
           /\ C26_Verify.status = 200
           /\ C26_Verify.exists <=> last.status = 200

\* A verify answered {exists: false} for an order id that a row of another
\* owner carries.
C26_Witness ==
    /\ Reached("verifyShipment")
    /\ last.status = 200
    /\ ~last.exists
    /\ \E r \in shipments :
           r.order_id = last.body.order_id /\ r.recipient_email # last.owner

====
